---- MODULE Spec2Model ----
(***************************************************************************)
(* Change detection and alerting in the monitoring templates:              *)
(*   - stock availability checker  (checkAllItems, previousStockState)     *)
(*   - price drop tracker          (runPriceTracker, checkAllProducts)     *)
(*   - eBay auction tracker        (checkTrackedAuctions)                  *)
(*   - website change detector     (runChangeDetector, checkPage)          *)
(*   - video recording utility     (waitForVideoAndDownload)               *)
(*   - Amazon bestseller tracker   (compareRankings)                       *)
(* Each tracker is a loop over its entities; one loop iteration is one     *)
(* step of the model, and the outcome of the browser calls of that         *)
(* iteration (newPage, goto, extract) is the step's input.                 *)
(***************************************************************************)
EXTENDS Integers, Sequences, FiniteSets, TLC

VARIABLES
    \* ---- stock availability checker ----
    previousStockState,  \* the module-level Map<string, boolean>, as a function
    stockPc,             \* "idle" | "loop" | "waiting" | "returned" | "threw"
    stockIdx,            \* index of the item the for-loop checks next
    stockAlerts,         \* alerts of the running / last cycle
    stockStatuses,       \* statuses of the running / last cycle
    stockCycles,         \* number of cycles started (bounded)
    stockLog,            \* history: per url, the successful observations so far
    \* ---- price drop tracker ----
    priceFile,           \* contents of DATA_FILE (<< >>: no file, or an empty array)
    products,            \* the array runPriceTracker loaded and checkAllProducts mutates
    pricePc,             \* "idle" | "loop" | "waiting" | "done" | "threw"
    priceIdx,            \* index of the product the for-loop checks next
    priceAlerts,         \* alerts of the running / last run
    priceRuns,           \* number of runs started (bounded)
    priceChecked,        \* history: the successful checks of this run, each with the
                         \* number of points recorded before it and the string read
    priceObserved,       \* history: per product, every price observed, this run included
    priceCommitted,      \* history: priceObserved as of the last run that saved
    priceStart,          \* history: DATA_FILE as the first run found it
    \* ---- eBay auction tracker ----
    auctionFile,         \* contents of DATA_FILE (<< >>: no file, or an empty array)
    auctions,            \* the array checkTrackedAuctions loaded and mutates
    auctionPc,           \* "idle" | "loop" | "done" | "threw"
    auctionIdx,          \* index of the auction the for-loop checks next
    auctionAlerts,       \* alerts of the running / last cycle
    auctionRuns,         \* number of cycles started (bounded)
    auctionChecked,      \* history: the completed checks of this cycle, each with the
                         \* number of points recorded before it
    auctionLog,          \* history: per auction, << >> or << its latest completed
                         \* check >>: the time left it found, whether it pushed
                         \* ending_soon, and whether the check before it found
                         \* the time left below 60 minutes (and above 0)
    \* ---- website change detector ----
    monitorFile,         \* contents of DATA_FILE (<< >>: no file, or an empty array)
    monitoredPages,      \* the array runChangeDetector loaded and mutates
    detectorPc,          \* "idle" | "loop" | "waiting" | "done"
    detectorIdx,         \* index of the page the for-loop checks next
    detectorResults,     \* results of the running / last run
    detectorRuns,        \* number of runs started (bounded)
    detectorBefore,      \* history: monitoredPages as the running / last run loaded it
    detectorFailed,      \* history: the pages whose check threw in this run
    detectorLog,         \* history: per page, the successful checks so far, each
                         \* with the number of failed checks before it
    \* ---- detectChanges on its own ----
    diffPrevious,        \* the argument `previous`
    diffCurrent,         \* the argument `current`
    diffResult,          \* << >> before the call, << the returned object >> after
    \* ---- waitForVideoAndDownload ----
    videoMaxWait,        \* the argument maxWaitMs, in units of pollIntervalMs
    videoPc,             \* "idle" | "test" | "poll" | "download" | "sleep" |
                         \* "returned" | "rejected"
    videoElapsed,        \* Date.now() - startTime, in units of pollIntervalMs
    videoResult,         \* << >> while the call runs, << what it returned >> after
    videoTrace,          \* history: what happened in the call, oldest first
    \* ---- Amazon bestseller tracker ----
    rankFile,            \* DATA_FILE: the array of TrackedProduct it holds
    trackedProducts,     \* the array compareRankings loaded and works on
    byCategory,          \* the Map of compareRankings: per category, in order of
                         \* insertion, the indices of its products in the array
    rankPc,              \* "idle" | "loop" | "returned" | "threw"
    rankIdx,             \* index in byCategory of the category the loop does next
    rankChanges,         \* `changes`: the RankingChange array of the running /
                         \* last cycle
    rankRuns,            \* number of calls of compareRankings so far
    rankSeen             \* history: << >>, or << the category and the rankings of
                         \* the cycle's latest extraction >>

stockVars == <<previousStockState, stockPc, stockIdx, stockAlerts,
               stockStatuses, stockCycles, stockLog>>

priceVars == <<priceFile, products, pricePc, priceIdx, priceAlerts, priceRuns,
               priceChecked, priceObserved, priceCommitted, priceStart>>

auctionVars == <<auctionFile, auctions, auctionPc, auctionIdx, auctionAlerts,
                 auctionRuns, auctionChecked, auctionLog>>

detectorVars == <<monitorFile, monitoredPages, detectorPc, detectorIdx,
                  detectorResults, detectorRuns, detectorBefore, detectorFailed,
                  detectorLog>>

diffVars == <<diffPrevious, diffCurrent, diffResult>>

videoVars == <<videoMaxWait, videoPc, videoElapsed, videoResult, videoTrace>>

rankVars == <<rankFile, trackedProducts, byCategory, rankPc, rankIdx, rankChanges,
              rankRuns, rankSeen>>

\* What a step of one tracker leaves alone: the state of the other trackers.
notStock == <<priceVars, auctionVars, detectorVars, diffVars, videoVars, rankVars>>

notPrice == <<stockVars, auctionVars, detectorVars, diffVars, videoVars, rankVars>>

notAuction == <<stockVars, priceVars, detectorVars, diffVars, videoVars, rankVars>>

notDetector == <<stockVars, priceVars, auctionVars, diffVars, videoVars, rankVars>>

notDiff == <<stockVars, priceVars, auctionVars, detectorVars, videoVars, rankVars>>

notVideo == <<stockVars, priceVars, auctionVars, detectorVars, diffVars, rankVars>>

notRank == <<stockVars, priceVars, auctionVars, detectorVars, diffVars, videoVars>>

vars == <<stockVars, priceVars, auctionVars, detectorVars, diffVars, videoVars,
          rankVars>>

\* Last(s): s[s.length - 1]
Last(s) == s[Len(s)]

(***************************************************************************)
(* Stock availability checker                                              *)
(***************************************************************************)

\* The items a cycle checks, by url (TRACKED_ITEMS, shortened to two items).
TRACKED_ITEMS == <<"bestbuy", "amazon">>

ItemUrls == {TRACKED_ITEMS[i] : i \in 1..Len(TRACKED_ITEMS)}

\* Bound on the number of cycles of checkAllItems the model runs.
MaxStockCycles == 4

\* previousStockState.get(url) === false
WasOutOfStockBuggy(m, url) == ~(url \in DOMAIN m /\ m[url] = TRUE)

WasOutOfStock(m, url) == url \in DOMAIN m /\ m[url] = FALSE

\* previousStockState.set(url, v)
MapSetOnce(m, url, v) ==
    [k \in (DOMAIN m) \cup {url} |-> IF k \in DOMAIN m THEN m[k] ELSE v]

MapSetAll(m, url, v) == [k \in (DOMAIN m) \cup {url} |-> v]

MapSet(m, url, v) ==
    [k \in (DOMAIN m) \cup {url} |-> IF k = url THEN v ELSE m[k]]

\* Where the loop stands after the iteration of item stockIdx completed
\* normally: the next iteration, or `return { alerts, statuses }`.
StockAdvance ==
    /\ stockIdx' = stockIdx + 1
    /\ stockPc' = IF stockIdx = Len(TRACKED_ITEMS) THEN "returned" ELSE "loop"

StockIdle ==
    /\ previousStockState = << >>
    /\ stockPc = "idle"
    /\ stockIdx = 1
    /\ stockAlerts = << >>
    /\ stockStatuses = << >>
    /\ stockCycles = 0
    /\ stockLog = [u \in ItemUrls |-> << >>]

PriceIdle ==
    /\ priceFile = << >>
    /\ products = << >>
    /\ pricePc = "idle"
    /\ priceIdx = 1
    /\ priceAlerts = << >>
    /\ priceRuns = 0
    /\ priceChecked = {}
    /\ priceObserved = << >>
    /\ priceCommitted = << >>
    /\ priceStart = << >>

AuctionIdle ==
    /\ auctionFile = << >>
    /\ auctions = << >>
    /\ auctionPc = "idle"
    /\ auctionIdx = 1
    /\ auctionAlerts = << >>
    /\ auctionRuns = 0
    /\ auctionChecked = {}
    /\ auctionLog = [i \in 1..2 |-> << >>]

DetectorIdle ==
    /\ monitorFile = << >>
    /\ monitoredPages = << >>
    /\ detectorPc = "idle"
    /\ detectorIdx = 1
    /\ detectorResults = << >>
    /\ detectorRuns = 0
    /\ detectorBefore = << >>
    /\ detectorFailed = {}
    /\ detectorLog = [i \in 1..2 |-> [checks |-> << >>, errors |-> 0]]

DiffIdle ==
    /\ diffPrevious = << >>
    /\ diffCurrent = << >>
    /\ diffResult = << >>

VideoIdle ==
    /\ videoMaxWait = 0
    /\ videoPc = "idle"
    /\ videoElapsed = 0
    /\ videoResult = << >>
    /\ videoTrace = << >>

RankIdle ==
    /\ rankFile = << >>
    /\ trackedProducts = << >>
    /\ byCategory = << >>
    /\ rankPc = "idle"
    /\ rankIdx = 1
    /\ rankChanges = << >>
    /\ rankRuns = 0
    /\ rankSeen = << >>

InitStock ==
    /\ StockIdle /\ PriceIdle /\ AuctionIdle /\ DetectorIdle /\ DiffIdle
    /\ VideoIdle /\ RankIdle

\* A call of checkAllItems(items): fresh alerts and statuses, loop at item 1.
StockStartCycle ==
    /\ stockPc \in {"idle", "returned", "threw"}
    /\ stockCycles < MaxStockCycles
    /\ stockCycles' = stockCycles + 1
    /\ stockPc' = "loop"
    /\ stockIdx' = 1
    /\ stockAlerts' = << >>
    /\ stockStatuses' = << >>
    /\ UNCHANGED <<previousStockState, stockLog, notStock>>

\* `const page = await agent.newPage()` throws: it stands outside the inner
\* try, so the exception leaves the for-loop and checkAllItems rejects after
\* the finally block; nothing is returned.
StockNewPageThrows ==
    /\ stockPc = "loop"
    /\ stockPc' = "threw"
    /\ UNCHANGED <<previousStockState, stockIdx, stockAlerts, stockStatuses,
                   stockCycles, stockLog, notStock>>

\* goto, waitForTimeout or extract throws inside the inner try: the catch
\* pushes a null status and the loop goes on.
StockStepThrows ==
    /\ stockPc = "loop"
    /\ stockStatuses' = Append(stockStatuses,
                               [item |-> TRACKED_ITEMS[stockIdx], ok |-> FALSE,
                                inStock |-> FALSE])
    /\ StockAdvance
    /\ UNCHANGED <<previousStockState, stockAlerts, stockCycles, stockLog, notStock>>

\* extract returned a status with status.inStock = inStock.
StockObserve(inStock) ==
    /\ stockPc = "loop"
    /\ LET url == TRACKED_ITEMS[stockIdx]
           known == url \in DOMAIN previousStockState
           wasOutOfStock == WasOutOfStock(previousStockState, url)
           alerted == inStock /\ wasOutOfStock
       IN /\ stockStatuses' = Append(stockStatuses,
                                     [item |-> url, ok |-> TRUE, inStock |-> inStock])
          /\ previousStockState' = MapSet(previousStockState, url, inStock)
          /\ stockAlerts' = IF alerted
                            THEN Append(stockAlerts,
                                        [item |-> url, previouslyOutOfStock |-> TRUE])
                            ELSE stockAlerts
          /\ stockLog' = [stockLog EXCEPT ![url] =
                             Append(@, [inStock |-> inStock, alerted |-> alerted,
                                        known |-> known])]
    /\ StockAdvance
    /\ UNCHANGED <<stockCycles, notStock>>

\* The process ends and the script is started again: the in-memory Map is
\* created empty (`new Map()`), nothing is loaded.
StockRestart ==
    /\ stockPc \in {"returned", "threw"}
    /\ previousStockState' = << >>
    /\ stockPc' = "idle"
    /\ UNCHANGED <<stockIdx, stockAlerts, stockStatuses, stockCycles, stockLog,
                   notStock>>

NextStock ==
    \/ StockStartCycle
    \/ StockNewPageThrows
    \/ StockStepThrows
    \/ \E inStock \in BOOLEAN : StockObserve(inStock)
    \/ StockRestart

SpecStock == InitStock /\ [][NextStock]_vars

(***************************************************************************)
(* Price drop tracker                                                      *)
(***************************************************************************)

\* Bound on the number of runs of runPriceTracker the model makes.
MaxPriceRuns == 2

\* `if (product.priceHistory.length > 100)` / `slice(-100)`
HISTORY_LIMIT == 100

\* `Math.abs(changePercent) >= 5`
DROP_PERCENT == 5

\* JavaScript numbers of lowestPrice / highestPrice: a finite number, Infinity,
\* or the null that JSON.stringify writes for Infinity.
Num(n) == [t |-> "number", n |-> n]

Infinity == [t |-> "Infinity", n |-> 0]

Null == [t |-> "null", n |-> 0]

Digits == {"0", "1", "2", "3", "4", "5", "6", "7", "8", "9"}

DigitVal(c) ==
    CASE c = "0" -> 0 [] c = "1" -> 1 [] c = "2" -> 2 [] c = "3" -> 3 [] c = "4" -> 4
      [] c = "5" -> 5 [] c = "6" -> 6 [] c = "7" -> 7 [] c = "8" -> 8 [] c = "9" -> 9

\* The value of a string of decimal digits.
RECURSIVE DigitsValue(_)
DigitsValue(d) ==
    IF d = << >> THEN 0
    ELSE 10 * DigitsValue(SubSeq(d, 1, Len(d) - 1)) + DigitVal(d[Len(d)])

\* The last index j >= i - 1 with s[i..j] all in set (a greedy character class).
RunEnd(s, i, set) ==
    CHOOSE j \in (i - 1)..Len(s) :
        /\ \A k \in i..j : s[k] \in set
        /\ j = Len(s) \/ s[j + 1] \notin set

\* parsePrice(priceStr), priceStr a sequence of characters: the leftmost match
\* of /[\d,]+\.?\d*/, commas removed, read by parseFloat; 0 without a match.
\* Defined for the strings whose match has digits before the point and only
\* zeros after it (the value is then a whole number).
parsePrice(priceStr) ==
    LET first == {i \in 1..Len(priceStr) : priceStr[i] \in Digits \cup {","}}
    IN IF first = {} THEN 0
       ELSE LET i == CHOOSE k \in first : \A l \in first : k <= l
                j == RunEnd(priceStr, i, Digits \cup {","})
                whole == SelectSeq(SubSeq(priceStr, i, j), LAMBDA c : c # ",")
            IN DigitsValue(whole)

\* The currentPrice strings the extractor returns in the model.
PriceStrings ==
    { <<"N", "/", "A">>,
      <<"$", "9", "5">>,
      <<"$", "9", "6", ".", "0", "0">>,
      <<"$", "1", "0", "0">>,
      <<"U", "S", "D", " ", "2", "9", "0">>,
      <<"$", "2", "9", "9">>,
      <<"$", "3", "2", "0", ".", "0", "0">> }

\* The sample products runPriceTracker adds when none are loaded (the first two).
SampleProducts ==
    << [id |-> "1", targetPrice |-> 300, priceHistory |-> << >>,
        lowestPrice |-> Infinity, highestPrice |-> Num(0)],
       [id |-> "2", targetPrice |-> 200, priceHistory |-> << >>,
        lowestPrice |-> Infinity, highestPrice |-> Num(0)] >>

\* A recorded history of n points, alternating 320 and 299.
RecordedHistory(n) == [i \in 1..n |-> [price |-> IF i % 2 = 1 THEN 320 ELSE 299]]

\* Contents of DATA_FILE when the model starts: no file; one product one point
\* short of the retention limit; two products with one recorded point each.
PriceFiles ==
    { << >>,
      << [id |-> "1", targetPrice |-> 300,
          priceHistory |-> RecordedHistory(HISTORY_LIMIT - 1),
          lowestPrice |-> Num(299), highestPrice |-> Num(320)] >>,
      << [id |-> "1", targetPrice |-> 300, priceHistory |-> << [price |-> 320] >>,
          lowestPrice |-> Num(320), highestPrice |-> Num(320)],
         [id |-> "2", targetPrice |-> 200, priceHistory |-> << [price |-> 100] >>,
          lowestPrice |-> Num(100), highestPrice |-> Num(100)] >> }

HistoryPrices(h) == [i \in 1..Len(h) |-> h[i].price]

\* JSON.parse(JSON.stringify(products)): Infinity is written as null.
JsonNumber(x) == IF x.t = "Infinity" THEN Null ELSE x

JsonRoundTrip(ps) ==
    [i \in 1..Len(ps) |->
        [ps[i] EXCEPT !.lowestPrice = JsonNumber(@), !.highestPrice = JsonNumber(@)]]

\* x || currentPrice: null and 0 are falsy.
OrElse(x, currentPrice) ==
    IF x.t = "null" \/ (x.t = "number" /\ x.n = 0) THEN Num(currentPrice) ELSE x

\* Math.min(x, currentPrice) and Math.max(x, currentPrice)
MathMin(x, currentPrice) ==
    IF x.t = "Infinity" \/ currentPrice <= x.n THEN Num(currentPrice) ELSE x

MathMax(x, currentPrice) ==
    IF x.t = "Infinity" \/ currentPrice <= x.n THEN x ELSE Num(currentPrice)

\* The last recorded price, or the current price when nothing is recorded.
PreviousPriceFirst(priceHistory, currentPrice) ==
    IF Len(priceHistory) > 0 THEN priceHistory[1].price ELSE currentPrice

PreviousPrice(priceHistory, currentPrice) ==
    IF Len(priceHistory) > 0 THEN Last(priceHistory).price ELSE currentPrice

\* push, then keep only the last 100 entries.
PushHistoryKeepOldest(priceHistory, currentPrice) ==
    LET pushed == Append(priceHistory, [price |-> currentPrice])
    IN IF Len(pushed) > HISTORY_LIMIT THEN SubSeq(pushed, 1, HISTORY_LIMIT) ELSE pushed

PushHistory(priceHistory, currentPrice) ==
    LET pushed == Append(priceHistory, [price |-> currentPrice])
    IN IF Len(pushed) > HISTORY_LIMIT
       THEN SubSeq(pushed, Len(pushed) - HISTORY_LIMIT + 1, Len(pushed))
       ELSE pushed

\* changePercent = ((currentPrice - previousPrice) / previousPrice) * 100, kept
\* as the fraction num / den (den = 0: the JavaScript value is not finite).
ChangePercent(currentPrice, previousPrice) ==
    [num |-> (currentPrice - previousPrice) * 100, den |-> previousPrice]

Abs(x) == IF x < 0 THEN -x ELSE x

\* Math.abs(changePercent) >= 5, for whole-number prices (the quotient of an
\* exact 5% change is the double nearest 0.05, and 0.05 * 100 is 5 in doubles).
AbsPercentAtLeast(cp, percent) ==
    IF cp.den = 0 THEN cp.num # 0 ELSE Abs(cp.num) >= percent * Abs(cp.den)

\* currentPrice < previousPrice && Math.abs(changePercent) >= 5
IsDropExclusive(currentPrice, previousPrice) ==
    /\ currentPrice < previousPrice
    /\ LET cp == ChangePercent(currentPrice, previousPrice)
       IN Abs(cp.num) > DROP_PERCENT * Abs(cp.den)

IsDropEitherWay(currentPrice, previousPrice) ==
    AbsPercentAtLeast(ChangePercent(currentPrice, previousPrice), DROP_PERCENT)

IsDrop(currentPrice, previousPrice) ==
    /\ currentPrice < previousPrice
    /\ AbsPercentAtLeast(ChangePercent(currentPrice, previousPrice), DROP_PERCENT)

\* currentPrice <= product.targetPrice && previousPrice > product.targetPrice
TargetReachedSteady(currentPrice, previousPrice, targetPrice) ==
    currentPrice <= targetPrice

TargetReached(currentPrice, previousPrice, targetPrice) ==
    currentPrice <= targetPrice /\ previousPrice > targetPrice

PriceAlert(i, alertType, previousPrice, currentPrice) ==
    [idx |-> i, productId |-> products[i].id, previousPrice |-> previousPrice,
     currentPrice |-> currentPrice,
     changePercent |-> ChangePercent(currentPrice, previousPrice),
     alertType |-> alertType]

\* The two `alerts.push` of an iteration: the drop test stands before the
\* target test.
PushPriceAlertsTargetFirst(alerts, drop, target) == alerts \o target \o drop

PushPriceAlerts(alerts, drop, target) == alerts \o drop \o target

InitPrice ==
    /\ StockIdle
    /\ AuctionIdle
    /\ DetectorIdle
    /\ DiffIdle
    /\ VideoIdle
    /\ RankIdle
    /\ priceFile \in PriceFiles
    /\ products = << >>
    /\ pricePc = "idle"
    /\ priceIdx = 1
    /\ priceAlerts = << >>
    /\ priceRuns = 0
    /\ priceChecked = {}
    /\ priceObserved = << >>
    /\ priceCommitted = [i \in 1..Len(priceFile) |-> HistoryPrices(priceFile[i].priceHistory)]
    /\ priceStart = priceFile

\* runPriceTracker up to the call of checkAllProducts: load the file, add the
\* sample products if none are loaded, start the loop with no alerts.
PriceStartRun ==
    /\ pricePc \in {"idle", "done", "threw"}
    /\ priceRuns < MaxPriceRuns
    /\ priceRuns' = priceRuns + 1
    /\ products' = IF Len(priceFile) = 0 THEN SampleProducts ELSE priceFile
    /\ pricePc' = "loop"
    /\ priceIdx' = 1
    /\ priceAlerts' = << >>
    /\ priceChecked' = {}
    /\ priceObserved' = IF Len(priceCommitted) = 0
                        THEN [i \in 1..Len(SampleProducts) |-> << >>]
                        ELSE priceCommitted
    /\ UNCHANGED <<priceFile, priceCommitted, priceStart, notPrice>>

\* The end of one loop iteration that left the array as ps and the observation
\* history as obs: the next iteration, or, after the last product, the return
\* of checkAllProducts followed by saveTrackedProducts(products).
PriceAdvance(ps, obs) ==
    /\ products' = ps
    /\ priceObserved' = obs
    /\ priceIdx' = priceIdx + 1
    /\ IF priceIdx = Len(products)
       THEN /\ pricePc' = "done"
            /\ priceFile' = JsonRoundTrip(ps)
            /\ priceCommitted' = obs
       ELSE /\ pricePc' = "loop"
            /\ UNCHANGED <<priceFile, priceCommitted>>

\* `const page = await agent.newPage()` in checkPrice throws: it stands before
\* the try, so checkPrice rejects, the for-loop of checkAllProducts has no
\* catch, and runPriceTracker rejects before saveTrackedProducts.
PriceNewPageThrows ==
    /\ pricePc = "loop"
    /\ pricePc' = "threw"
    /\ UNCHANGED <<priceFile, products, priceIdx, priceAlerts, priceRuns,
                   priceChecked, priceObserved, priceCommitted, priceStart, notPrice>>

\* goto, waitForTimeout or extract throws: checkPrice returns null and the
\* loop continues with the next product.
PriceCheckFails ==
    /\ pricePc = "loop"
    /\ PriceAdvance(products, priceObserved)
    /\ UNCHANGED <<priceAlerts, priceRuns, priceChecked, priceStart, notPrice>>

\* checkPrice returned priceData with priceData.currentPrice = priceStr.
PriceCheck(priceStr) ==
    /\ pricePc = "loop"
    /\ LET i == priceIdx
           product == products[i]
           currentPrice == parsePrice(priceStr)
           previousPrice == PreviousPrice(product.priceHistory, currentPrice)
           updated == [product EXCEPT
               !.priceHistory = PushHistory(@, currentPrice),
               !.lowestPrice = MathMin(OrElse(@, currentPrice), currentPrice),
               !.highestPrice = MathMax(OrElse(@, currentPrice), currentPrice)]
           drop == IF IsDrop(currentPrice, previousPrice)
                   THEN << PriceAlert(i, "drop", previousPrice, currentPrice) >>
                   ELSE << >>
           target == IF TargetReached(currentPrice, previousPrice, product.targetPrice)
                     THEN << PriceAlert(i, "target_reached", previousPrice, currentPrice) >>
                     ELSE << >>
       IN /\ priceAlerts' = PushPriceAlerts(priceAlerts, drop, target)
          /\ priceChecked' = priceChecked \cup
                                 {[idx |-> i, recorded |-> Len(product.priceHistory),
                                   priceStr |-> priceStr]}
          /\ PriceAdvance([products EXCEPT ![i] = updated],
                          [priceObserved EXCEPT ![i] = Append(@, currentPrice)])
    /\ UNCHANGED <<priceRuns, priceStart, notPrice>>

NextPrice ==
    \/ PriceStartRun
    \/ PriceNewPageThrows
    \/ PriceCheckFails
    \/ \E priceStr \in PriceStrings : PriceCheck(priceStr)

SpecPrice == InitPrice /\ [][NextPrice]_vars

(***************************************************************************)
(* eBay auction tracker                                                    *)
(***************************************************************************)

\* Bound on the number of cycles of checkTrackedAuctions the model runs.
MaxAuctionRuns == 2

\* `timeLeft < 60`
ENDING_SOON_MINUTES == 60

\* parsePrice of the auction tracker: the same match and conversion as the
\* price tracker's, 0 without a match.
parseAuctionPrice(priceStr) == parsePrice(priceStr)

Spaces == {" "}

\* The number captured by /(\d+)\s*<unit>/i in timeStr, 0 without a match: the
\* leftmost run of digits that is followed, after optional spaces, by the unit
\* letter.
UnitMinutes(timeStr, lower, upper) ==
    LET starts == {i \in 1..Len(timeStr) :
                      /\ timeStr[i] \in Digits
                      /\ (i = 1 \/ timeStr[i - 1] \notin Digits)
                      /\ LET j == RunEnd(timeStr, i, Digits)
                             k == RunEnd(timeStr, j + 1, Spaces)
                         IN k < Len(timeStr) /\ timeStr[k + 1] \in {lower, upper}}
    IN IF starts = {} THEN 0
       ELSE LET i == CHOOSE a \in starts : \A b \in starts : a <= b
            IN DigitsValue(SubSeq(timeStr, i, RunEnd(timeStr, i, Digits)))

\* parseTimeRemaining(timeStr): minutes remaining.
parseTimeRemaining(timeStr) ==
    UnitMinutes(timeStr, "d", "D") * 24 * 60
        + UnitMinutes(timeStr, "h", "H") * 60
        + UnitMinutes(timeStr, "m", "M")

\* The currentBid strings the extractor returns in the model.
BidStrings ==
    { <<"N", "/", "A">>,
      <<"$", "5", "0", ".", "0", "0">>,
      <<"U", "S", " ", "$", "1", "2", "0">> }

\* The timeRemaining strings the extractor returns in the model.
TimeStrings ==
    { <<"3", "0", "m">>,
      <<"4", "5", "m", " ", "1", "0", "s">>,
      <<"1", "h", " ", "3", "0", "m">> }

\* A recorded history of n points, each a bid of 50.
RecordedBids(n) == [i \in 1..n |-> [bid |-> 50]]

\* Contents of DATA_FILE when the model starts: nothing tracked; two auctions
\* never checked; one auction with 100 recorded points.
AuctionFiles ==
    { << >>,
      << [id |-> "a1", maxBid |-> 100, history |-> << >>],
         [id |-> "a2", maxBid |-> 100, history |-> << >>] >>,
      << [id |-> "a1", maxBid |-> 100, history |-> RecordedBids(HISTORY_LIMIT)] >> }

\* The last recorded bid, or 0 when nothing is recorded.
PreviousBid(history) == IF Len(history) > 0 THEN Last(history).bid ELSE 0

\* timeLeft < 60 && timeLeft > 0
EndingSoon(timeLeft) == timeLeft < ENDING_SOON_MINUTES /\ timeLeft > 0

\* currentBid > auction.maxBid && previousBid <= auction.maxBid
Outbid(currentBid, previousBid, maxBid) == currentBid > maxBid /\ previousBid <= maxBid

\* currentBid > previousBid && previousBid > 0
NewBid(currentBid, previousBid) == currentBid > previousBid /\ previousBid > 0

AuctionAlert(i, type) == [idx |-> i, auction |-> auctions[i].id, type |-> type]

InitAuction ==
    /\ StockIdle
    /\ PriceIdle
    /\ DetectorIdle
    /\ DiffIdle
    /\ VideoIdle
    /\ RankIdle
    /\ auctionFile \in AuctionFiles
    /\ auctions = << >>
    /\ auctionPc = "idle"
    /\ auctionIdx = 1
    /\ auctionAlerts = << >>
    /\ auctionRuns = 0
    /\ auctionChecked = {}
    /\ auctionLog = [i \in 1..2 |-> << >>]

\* checkTrackedAuctions with nothing tracked: `return []` before any check.
AuctionNothingTracked ==
    /\ auctionPc \in {"idle", "done", "threw"}
    /\ auctionRuns < MaxAuctionRuns
    /\ Len(auctionFile) = 0
    /\ auctionRuns' = auctionRuns + 1
    /\ auctions' = << >>
    /\ auctionPc' = "done"
    /\ auctionIdx' = 1
    /\ auctionAlerts' = << >>
    /\ auctionChecked' = {}
    /\ UNCHANGED <<auctionFile, auctionLog, notAuction>>

\* checkTrackedAuctions up to the for-loop: load the file, no alerts yet.
AuctionStartCycle ==
    /\ auctionPc \in {"idle", "done", "threw"}
    /\ auctionRuns < MaxAuctionRuns
    /\ Len(auctionFile) > 0
    /\ auctionRuns' = auctionRuns + 1
    /\ auctions' = auctionFile
    /\ auctionPc' = "loop"
    /\ auctionIdx' = 1
    /\ auctionAlerts' = << >>
    /\ auctionChecked' = {}
    /\ UNCHANGED <<auctionFile, auctionLog, notAuction>>

\* newPage, goto, waitForTimeout or extract throws: the for-loop has no catch,
\* so checkTrackedAuctions rejects after the finally block, before
\* saveTrackedAuctions.
AuctionStepThrows ==
    /\ auctionPc = "loop"
    /\ auctionPc' = "threw"
    /\ UNCHANGED <<auctionFile, auctions, auctionIdx, auctionAlerts, auctionRuns,
                   auctionChecked, auctionLog, notAuction>>

\* extract returned status with status.currentBid = bidStr and
\* status.timeRemaining = timeStr; after the last auction the cycle saves.
AuctionCheck(bidStr, timeStr) ==
    /\ auctionPc = "loop"
    /\ LET i == auctionIdx
           auction == auctions[i]
           currentBid == parseAuctionPrice(bidStr)
           previousBid == PreviousBid(auction.history)
           updated == [auctions EXCEPT
                          ![i].history = Append(@, [bid |-> currentBid])]
           timeLeft == parseTimeRemaining(timeStr)
           endingSoon == IF EndingSoon(timeLeft)
                         THEN << AuctionAlert(i, "ending_soon") >> ELSE << >>
           outbid == IF Outbid(currentBid, previousBid, auction.maxBid)
                     THEN << AuctionAlert(i, "outbid") >> ELSE << >>
           newBid == IF NewBid(currentBid, previousBid)
                     THEN << AuctionAlert(i, "new_bid") >> ELSE << >>
       IN /\ auctions' = updated
          /\ auctionAlerts' = auctionAlerts \o endingSoon \o outbid \o newBid
          /\ auctionChecked' = auctionChecked \cup
                                   {[idx |-> i, recorded |-> Len(auction.history)]}
          /\ auctionLog' = [auctionLog EXCEPT ![i] =
                 << [timeLeft |-> timeLeft,
                     endingSoon |-> endingSoon # << >>,
                     wasEndingSoon |-> @ # << >> /\ EndingSoon(@[1].timeLeft)] >>]
          /\ auctionIdx' = i + 1
          /\ IF i = Len(auctions)
             THEN auctionPc' = "done" /\ auctionFile' = updated
             ELSE auctionPc' = "loop" /\ UNCHANGED auctionFile
    /\ UNCHANGED <<auctionRuns, notAuction>>

NextAuction ==
    \/ AuctionNothingTracked
    \/ AuctionStartCycle
    \/ AuctionStepThrows
    \/ \E bidStr \in BidStrings, timeStr \in TimeStrings : AuctionCheck(bidStr, timeStr)

SpecAuction == InitAuction /\ [][NextAuction]_vars

(***************************************************************************)
(* Website change detector                                                 *)
(***************************************************************************)

\* Bound on the number of runs of runChangeDetector the model makes.
MaxDetectorRuns == 3

\* An optional or nullable value: << >> when undefined / null, << v >> else.
Missing == << >>

Some(v) == << v >>

\* The sample pages of runChangeDetector (shortened to two pages): no
\* lastChecked, lastHash or lastContent yet.
SamplePages ==
    << [id |-> "1", lastChecked |-> Missing, lastHash |-> Missing, lastContent |-> Missing],
       [id |-> "2", lastChecked |-> Missing, lastHash |-> Missing, lastContent |-> Missing] >>

\* An object of PageContentSchema.
PageContent(title, mainContent, lastUpdated, links, importantSections) ==
    [title |-> title, mainContent |-> mainContent, lastUpdated |-> lastUpdated,
     links |-> links, importantSections |-> importantSections]

Section(heading, content) == [heading |-> heading, content |-> content]

\* What the extractor returns for a page, one of:
\*   1 the page as first seen            4 one more link
\*   2 its two sections swapped          5 a section edited, one replaced,
\*   3 lastUpdated "" instead of null      new title
Contents ==
    << PageContent("Blog", "Hello", Missing, <<"/a">>,
                   <<Section("Specs", "A"), Section("Reviews", "B")>>),
       PageContent("Blog", "Hello", Missing, <<"/a">>,
                   <<Section("Reviews", "B"), Section("Specs", "A")>>),
       PageContent("Blog", "Hello", Some(""), <<"/a">>,
                   <<Section("Specs", "A"), Section("Reviews", "B")>>),
       PageContent("Blog", "Hello", Missing, <<"/a", "/b">>,
                   <<Section("Specs", "A"), Section("Reviews", "B")>>),
       PageContent("Blog v2", "Hello", Missing, <<"/a">>,
                   <<Section("Specs", "A2"), Section("Shipping", "C")>>) >>

\* Which of them the extractor returns for page i: any for the first page,
\* the first or the fifth for the other.
Extracted(i) == IF i = 1 THEN 1..Len(Contents) ELSE {1, 5}

\* JSON.stringify(content): the keys in the order of the schema, arrays in
\* the order of their elements, null as `null` and a string in quotes.  The
\* text is kept as the sequence of its tokens.
JsonStringify(content) ==
    << <<"title", content.title>>,
       <<"mainContent", content.mainContent>>,
       <<"lastUpdated", IF content.lastUpdated = Missing
                        THEN <<"null">>
                        ELSE <<"string", content.lastUpdated[1]>> >>,
       <<"links", content.links>>,
       <<"importantSections",
         [i \in 1..Len(content.importantSections) |->
             << <<"heading", content.importantSections[i].heading>>,
                <<"content", content.importantSections[i].content>> >>]>> >>

\* hashContent(content): the md5 digest of JSON.stringify(content); two
\* digests are equal exactly when the texts are (collisions left aside).
hashContent(content) == <<"md5", JsonStringify(content)>>

\* [...new Set(s)]: the elements of s in the order of their first occurrence.
UniqueInOrder(s) ==
    LET F[i \in 0..Len(s)] ==
            IF i = 0 THEN << >>
            ELSE IF \E j \in 1..(i - 1) : s[j] = s[i] THEN F[i - 1]
                 ELSE Append(F[i - 1], s[i])
    IN F[Len(s)]

\* sections.map((s) => s.heading)
Headings(sections) == [i \in 1..Len(sections) |-> sections[i].heading]

Has(s, x) == \E i \in 1..Len(s) : s[i] = x

\* sections.find((s) => s.heading === heading)
FindSection(sections, heading) ==
    LET hits == {i \in 1..Len(sections) : sections[i].heading = heading}
    IN IF hits = {} THEN Missing
       ELSE Some(sections[CHOOSE i \in hits : \A j \in hits : i <= j])

\* The forEach of detectChanges over current.importantSections.
ModifiedSections(previousSections, currentSections) ==
    LET F[i \in 0..Len(currentSections)] ==
            IF i = 0 THEN << >>
            ELSE LET section == currentSections[i]
                     prevSection == FindSection(previousSections, section.heading)
                 IN IF prevSection # Missing /\ prevSection[1].content # section.content
                    THEN Append(F[i - 1], section.heading)
                    ELSE F[i - 1]
    IN F[Len(currentSections)]

detectChanges(previous, current) ==
    LET previousSections == UniqueInOrder(Headings(previous.importantSections))
        currentSections == UniqueInOrder(Headings(current.importantSections))
    IN [titleChanged |-> previous.title # current.title,
        contentChanged |-> previous.mainContent # current.mainContent,
        newSections |-> SelectSeq(currentSections, LAMBDA h : ~Has(previousSections, h)),
        removedSections |-> SelectSeq(previousSections, LAMBDA h : ~Has(currentSections, h)),
        modifiedSections |-> ModifiedSections(previous.importantSections,
                                              current.importantSections)]

\* The three returns of checkPage, by page.lastHash and the hash of the
\* extracted content.
ChangeTypeNeverNew(lastHash, currentHash) ==
    IF Some(currentHash) = lastHash THEN "no_change" ELSE "modified"

ChangeTypeNoEqualityTest(lastHash, currentHash) ==
    IF lastHash = Missing THEN "new" ELSE "modified"

ChangeType(lastHash, currentHash) ==
    IF lastHash = Missing THEN "new"
    ELSE IF Some(currentHash) = lastHash THEN "no_change"
    ELSE "modified"

\* checkPage(agent, page) when the extractor returned content: the
\* ChangeDetection object (page by its index, timestamp by the run).
checkPage(i, page, content, timestamp) ==
    LET changeType == ChangeType(page.lastHash, hashContent(content))
    IN [page |-> i,
        changeType |-> changeType,
        changes |-> IF changeType = "modified" /\ page.lastContent # Missing
                    THEN Some(detectChanges(page.lastContent[1], content))
                    ELSE Missing,
        previousContent |-> IF changeType = "modified" THEN page.lastContent ELSE Missing,
        currentContent |-> content,
        timestamp |-> timestamp]

\* The three assignments of runChangeDetector after checkPage returned.
UpdatePageKeepHash(page, detection) ==
    [page EXCEPT !.lastChecked = Some(detection.timestamp),
                 !.lastHash = IF @ = Missing
                              THEN Some(hashContent(detection.currentContent)) ELSE @,
                 !.lastContent = Some(detection.currentContent)]

UpdatePageHashOnly(page, detection) ==
    [page EXCEPT !.lastChecked = Some(detection.timestamp),
                 !.lastHash = Some(hashContent(detection.currentContent))]

UpdatePage(page, detection) ==
    [page EXCEPT !.lastChecked = Some(detection.timestamp),
                 !.lastHash = Some(hashContent(detection.currentContent)),
                 !.lastContent = Some(detection.currentContent)]

InitDetector ==
    /\ StockIdle
    /\ PriceIdle
    /\ AuctionIdle
    /\ DetectorIdle
    /\ DiffIdle
    /\ VideoIdle
    /\ RankIdle

\* runChangeDetector(): load the pages (the sample pages when there are
\* none), fresh results, loop at page 1.
DetectorStartRun ==
    /\ detectorPc \in {"idle", "done"}
    /\ detectorRuns < MaxDetectorRuns
    /\ detectorRuns' = detectorRuns + 1
    /\ monitoredPages' = IF Len(monitorFile) = 0 THEN SamplePages ELSE monitorFile
    /\ detectorBefore' = monitoredPages'
    /\ detectorFailed' = {}
    /\ detectorResults' = << >>
    /\ detectorIdx' = 1
    /\ detectorPc' = "loop"
    /\ UNCHANGED <<monitorFile, detectorLog, notDetector>>

\* Where the loop stands after the iteration of page detectorIdx, with ps
\* the array after it: the next iteration, or saveMonitoredPages(ps).
DetectorAdvanceStamping(ps) ==
    /\ monitoredPages' = [ps EXCEPT ![detectorIdx].lastChecked = Some(detectorRuns)]
    /\ detectorIdx' = detectorIdx + 1
    /\ IF detectorIdx = Len(monitoredPages)
       THEN detectorPc' = "done" /\ monitorFile' = monitoredPages'
       ELSE detectorPc' = "loop" /\ UNCHANGED monitorFile

DetectorAdvance(ps) ==
    /\ monitoredPages' = ps
    /\ detectorIdx' = detectorIdx + 1
    /\ IF detectorIdx = Len(monitoredPages)
       THEN detectorPc' = "done" /\ monitorFile' = ps
       ELSE detectorPc' = "loop" /\ UNCHANGED monitorFile

\* checkPage threw (newPage, goto or extract failed): the catch of the loop
\* logs the error and the loop goes on.
DetectorCheckThrows ==
    /\ detectorPc = "loop"
    /\ detectorFailed' = detectorFailed \cup {detectorIdx}
    /\ detectorLog' = [detectorLog EXCEPT ![detectorIdx].errors = @ + 1]
    /\ DetectorAdvance(monitoredPages)
    /\ UNCHANGED <<detectorResults, detectorRuns, detectorBefore, notDetector>>

\* checkPage returned: the extractor gave Contents[c].
DetectorCheck(c) ==
    /\ detectorPc = "loop"
    /\ c \in Extracted(detectorIdx)
    /\ LET i == detectorIdx
           content == Contents[c]
           detection == checkPage(i, monitoredPages[i], content, detectorRuns)
       IN /\ detectorResults' = Append(detectorResults, detection)
          /\ detectorLog' = [detectorLog EXCEPT ![i].checks =
                                Append(@, [changeType |-> detection.changeType,
                                           content |-> content,
                                           errorsBefore |-> detectorLog[i].errors])]
          /\ DetectorAdvance([monitoredPages EXCEPT ![i] = UpdatePage(@, detection)])
    /\ UNCHANGED <<detectorRuns, detectorBefore, detectorFailed, notDetector>>

NextDetector ==
    \/ DetectorStartRun
    \/ DetectorCheckThrows
    \/ \E c \in 1..Len(Contents) : DetectorCheck(c)

SpecDetector == InitDetector /\ [][NextDetector]_vars

(***************************************************************************)
(* detectChanges as a function of two extracted contents                   *)
(***************************************************************************)

\* Bound on the length of the section lists detectChanges is applied to.
MaxSections == 2

\* The sections the lists are made of: one heading with two contents, and
\* two more headings.
DiffSections ==
    {Section("Specs", "A"), Section("Specs", "A2"),
     Section("Reviews", "B"), Section("Shipping", "C")}

SectionLists == UNION {[1..k -> DiffSections] : k \in 0..MaxSections}

InitDiff ==
    /\ StockIdle
    /\ PriceIdle
    /\ AuctionIdle
    /\ DetectorIdle
    /\ VideoIdle
    /\ RankIdle
    /\ \E p \in SectionLists, c \in SectionLists, t \in {"Blog", "Blog v2"} :
          /\ diffPrevious = PageContent("Blog", "Hello", Missing, <<"/a">>, p)
          /\ diffCurrent = PageContent(t, "Hello", Missing, <<"/a">>, c)
    /\ diffResult = Missing

\* const changes = detectChanges(previous, current)
DiffCall ==
    /\ diffResult = Missing
    /\ diffResult' = Some(detectChanges(diffPrevious, diffCurrent))
    /\ UNCHANGED <<diffPrevious, diffCurrent, notDiff>>

NextDiff == DiffCall

SpecDiff == InitDiff /\ [][NextDiff]_vars

(***************************************************************************)
(* waitForVideoAndDownload                                                 *)
(***************************************************************************)

\* Bound on the argument maxWaitMs, counted in units of pollIntervalMs.
MaxVideoWait == 3

\* How long an awaited call (a status check, a download) may take, in units
\* of pollIntervalMs.
CallTimes == 0..2

\* The answers of getVideoRecordingURL: its status and whether it carries a
\* recordingUrl.
VideoResponses ==
    [status : {"completed", "failed", "pending"}, recordingUrl : BOOLEAN]

VideoEvent(what) == [what |-> what, at |-> videoElapsed]

\* Where control goes when the body of the try throws: the catch logs the
\* error and the loop goes on to its sleep.
AfterThrowRejects == "rejected"

AfterThrow == "sleep"

\* The call has set up its client and directory and stands at the test of
\* the while loop, startTime just taken.
InitVideo ==
    /\ StockIdle
    /\ PriceIdle
    /\ AuctionIdle
    /\ DetectorIdle
    /\ DiffIdle
    /\ RankIdle
    /\ videoMaxWait \in 1..MaxVideoWait
    /\ videoPc = "test"
    /\ videoElapsed = 0
    /\ videoResult = Missing
    /\ videoTrace = << >>

\* while (Date.now() - startTime < maxWaitMs), and the `return null` after
\* the loop.
VideoLoopTest ==
    /\ videoPc = "test"
    /\ IF videoElapsed < videoMaxWait
       THEN /\ videoPc' = "poll"
            /\ videoTrace' = Append(videoTrace, VideoEvent("poll"))
            /\ UNCHANGED videoResult
       ELSE /\ videoPc' = "returned"
            /\ videoResult' = Some("null")
            /\ videoTrace' = Append(videoTrace, VideoEvent("timeout"))
    /\ UNCHANGED <<videoMaxWait, videoElapsed, notVideo>>

\* getVideoRecordingURL answered after dt: completed with a url goes on to
\* the download, failed returns null, anything else is logged.
VideoStatus(response, dt) ==
    /\ videoPc = "poll"
    /\ videoElapsed' = videoElapsed + dt
    /\ IF response.status = "completed" /\ response.recordingUrl
       THEN /\ videoPc' = "download"
            /\ videoTrace' = Append(videoTrace, VideoEvent("ready"))
            /\ UNCHANGED videoResult
       ELSE IF response.status = "failed"
       THEN /\ videoPc' = "returned"
            /\ videoResult' = Some("null")
            /\ videoTrace' = Append(videoTrace, VideoEvent("failed"))
       ELSE /\ videoPc' = "sleep"
            /\ videoTrace' = Append(videoTrace, VideoEvent("not ready"))
            /\ UNCHANGED videoResult
    /\ UNCHANGED <<videoMaxWait, notVideo>>

\* getVideoRecordingURL threw after dt.
VideoStatusThrows(dt) ==
    /\ videoPc = "poll"
    /\ videoElapsed' = videoElapsed + dt
    /\ videoPc' = AfterThrow
    /\ videoTrace' = Append(videoTrace, VideoEvent("status error"))
    /\ UNCHANGED <<videoMaxWait, videoResult, notVideo>>

\* downloadFile resolved after dt: `return destPath`.
VideoDownloaded(dt) ==
    /\ videoPc = "download"
    /\ videoElapsed' = videoElapsed + dt
    /\ videoPc' = "returned"
    /\ videoResult' = Some("destPath")
    /\ videoTrace' = Append(videoTrace, VideoEvent("downloaded"))
    /\ UNCHANGED <<videoMaxWait, notVideo>>

\* downloadFile rejected after dt.
VideoDownloadThrows(dt) ==
    /\ videoPc = "download"
    /\ videoElapsed' = videoElapsed + dt
    /\ videoPc' = AfterThrow
    /\ videoTrace' = Append(videoTrace, VideoEvent("download error"))
    /\ UNCHANGED <<videoMaxWait, videoResult, notVideo>>

\* await new Promise((resolve) => setTimeout(resolve, pollIntervalMs))
VideoSleep ==
    /\ videoPc = "sleep"
    /\ videoElapsed' = videoElapsed + 1
    /\ videoPc' = "test"
    /\ videoTrace' = Append(videoTrace, VideoEvent("slept"))
    /\ UNCHANGED <<videoMaxWait, videoResult, notVideo>>

NextVideo ==
    \/ VideoLoopTest
    \/ \E response \in VideoResponses, dt \in CallTimes : VideoStatus(response, dt)
    \/ \E dt \in CallTimes : VideoStatusThrows(dt)
    \/ \E dt \in CallTimes : VideoDownloaded(dt)
    \/ \E dt \in CallTimes : VideoDownloadThrows(dt)
    \/ VideoSleep

SpecVideo == InitVideo /\ [][NextVideo]_vars

(***************************************************************************)
(* Amazon bestseller tracker: compareRankings                              *)
(***************************************************************************)

\* Bound on the number of calls of compareRankings the model runs.
MaxRankRuns == 2

\* `tracked.name.toLowerCase().substring(0, 20)`
NAME_PREFIX == 20

\* Strings are sequences of characters.
ElectronicsCap == <<"E", "l", "e", "c", "t", "r", "o", "n", "i", "c", "s">>
electronics == <<"e", "l", "e", "c", "t", "r", "o", "n", "i", "c", "s">>
books == <<"b", "o", "o", "k", "s">>
garden == <<"g", "a", "r", "d", "e", "n">>

\* The keys of CATEGORIES.
CATEGORIES ==
    { electronics,
      books,
      <<"h", "o", "m", "e">>,
      <<"t", "o", "y", "s">>,
      <<"b", "e", "a", "u", "t", "y">>,
      <<"f", "a", "s", "h", "i", "o", "n">>,
      <<"s", "p", "o", "r", "t", "s">>,
      <<"k", "i", "t", "c", "h", "e", "n">> }

UpperCase == <<"A", "B", "C", "D", "E", "F", "G", "H", "I", "J", "K", "L",
               "M", "N", "O", "P", "Q", "R", "S", "T", "U", "V", "W", "X",
               "Y", "Z">>

LowerCase == <<"a", "b", "c", "d", "e", "f", "g", "h", "i", "j", "k", "l",
               "m", "n", "o", "p", "q", "r", "s", "t", "u", "v", "w", "x",
               "y", "z">>

\* s.toLowerCase()
toLowerCase(s) ==
    [i \in 1..Len(s) |->
        IF \E k \in 1..Len(UpperCase) : UpperCase[k] = s[i]
        THEN LowerCase[CHOOSE k \in 1..Len(UpperCase) : UpperCase[k] = s[i]]
        ELSE s[i]]

\* s.substring(0, n)
Substring0(s, n) == SubSeq(s, 1, IF n < Len(s) THEN n ELSE Len(s))

\* s.includes(t)
Includes(s, t) ==
    \E k \in 0..(Len(s) - Len(t)) : SubSeq(s, k + 1, k + Len(t)) = t

\* The predicate of the find over currentRankings.products.
Matches(p, tracked) ==
    Includes(toLowerCase(p.name), Substring0(toLowerCase(tracked.name), NAME_PREFIX))

\* The first ranking, whatever its name.
FindRankingFirst(rankings, tracked) ==
    IF Len(rankings) = 0 THEN Missing ELSE Some(rankings[1])

\* currentRankings.products.find(...): the first ranking that matches.
FindRanking(rankings, tracked) ==
    LET hits == {k \in 1..Len(rankings) : Matches(rankings[k], tracked)}
    IN IF hits = {} THEN Missing
       ELSE Some(rankings[CHOOSE k \in hits : \A j \in hits : k <= j])

\* `if (current && tracked.rankHistory.length > 0)`
RecordsRank(current, rankHistory) == current # Missing /\ Len(rankHistory) > 0

\* The RankingChange pushed for a tracked product found at current.
RankingChange(tracked, category, current) ==
    LET previousRank == Last(tracked.rankHistory).rank
        change == previousRank - current.rank
    IN [product |-> tracked.name,
        category |-> category,
        previousRank |-> previousRank,
        currentRank |-> current.rank,
        change |-> Abs(change),
        direction |-> IF change > 0 THEN "up"
                      ELSE IF change < 0 THEN "down" ELSE "same"]

\* The Map byCategory: the categories in the order of their first product,
\* each with its products (as indices in the array) in array order.
GroupByCategory(ps) ==
    LET cats == UniqueInOrder([i \in 1..Len(ps) |-> ps[i].category])
    IN [k \in 1..Len(cats) |->
           [category |-> cats[k],
            products |-> SelectSeq([i \in 1..Len(ps) |-> i],
                                   LAMBDA i : ps[i].category = cats[k])]]

\* `products.forEach((tracked) => ...)` for one category: the array and the
\* changes after it.
CompareCategory(ps, chs, group, rankings) ==
    LET F[k \in 0..Len(group.products)] ==
            IF k = 0 THEN [ps |-> ps, chs |-> chs]
            ELSE LET i == group.products[k]
                     tracked == F[k - 1].ps[i]
                     current == FindRanking(rankings, tracked)
                 IN IF RecordsRank(current, tracked.rankHistory)
                    THEN [ps |-> [F[k - 1].ps EXCEPT ![i].rankHistory =
                                      Append(@, [rank |-> current[1].rank])],
                          chs |-> Append(F[k - 1].chs,
                                         RankingChange(tracked, group.category,
                                                       current[1]))]
                    ELSE F[k - 1]
    IN F[Len(group.products)]

EchoDot == <<"E", "c", "h", "o", " ", "D", "o", "t">>

AirPods == <<"A", "p", "p", "l", "e", " ", "A", "i", "r", "P", "o", "d",
             "s", " ", "P", "r", "o", " ", "(", "2", "n", "d", " ", "G",
             "e", "n", ")">>

Echo == <<"E", "c", "h", "o">>

GardenHose == <<"G", "a", "r", "d", "e", "n", " ", "H", "o", "s", "e">>

\* Contents of DATA_FILE when the model starts: nothing tracked, or four
\* products: two of one category, one of them never ranked; one whose
\* category is spelled in lower case; one in a category without a url.
RankFiles ==
    { << >>,
      << [asin |-> "B01", name |-> EchoDot, category |-> ElectronicsCap,
          rankHistory |-> << [rank |-> 3] >>],
         [asin |-> "B02", name |-> AirPods, category |-> ElectronicsCap,
          rankHistory |-> << >>],
         [asin |-> "B03", name |-> Echo, category |-> electronics,
          rankHistory |-> << [rank |-> 2] >>],
         [asin |-> "B04", name |-> GardenHose, category |-> garden,
          rankHistory |-> << [rank |-> 7] >>] >> }

\* Names and ranks a category page may list.
ListedNames ==
    { <<"A", "m", "a", "z", "o", "n", " ", "E", "c", "h", "o", " ", "D",
        "o", "t", " ", "(", "5", "t", "h", " ", "G", "e", "n", ")">>,
      <<"A", "P", "P", "L", "E", " ", "A", "i", "r", "P", "o", "d", "s",
        " ", "P", "r", "o", " ", "(", "2", "n", "d", " ", "G", "e", "n",
        "e", "r", "a", "t", "i", "o", "n", ")">> }

ListedRanks == {1, 4}

RankEntries == [rank : ListedRanks, name : ListedNames]

\* What the extraction may return: up to two products.
RankingLists == UNION {[1..n -> RankEntries] : n \in 0..2}

InitRank ==
    /\ StockIdle
    /\ PriceIdle
    /\ AuctionIdle
    /\ DetectorIdle
    /\ DiffIdle
    /\ VideoIdle
    /\ rankFile \in RankFiles
    /\ trackedProducts = << >>
    /\ byCategory = << >>
    /\ rankPc = "idle"
    /\ rankIdx = 1
    /\ rankChanges = << >>
    /\ rankRuns = 0
    /\ rankSeen = << >>

\* compareRankings() finds nothing tracked and returns [].
RankNothingTracked ==
    /\ rankPc \in {"idle", "returned", "threw"}
    /\ rankRuns < MaxRankRuns
    /\ Len(rankFile) = 0
    /\ rankRuns' = rankRuns + 1
    /\ trackedProducts' = << >>
    /\ byCategory' = << >>
    /\ rankPc' = "returned"
    /\ rankIdx' = 1
    /\ rankChanges' = << >>
    /\ rankSeen' = << >>
    /\ UNCHANGED <<rankFile, notRank>>

\* compareRankings() up to the for-loop: load, group by category.
RankStartCycle ==
    /\ rankPc \in {"idle", "returned", "threw"}
    /\ rankRuns < MaxRankRuns
    /\ Len(rankFile) > 0
    /\ rankRuns' = rankRuns + 1
    /\ trackedProducts' = rankFile
    /\ byCategory' = GroupByCategory(rankFile)
    /\ rankPc' = "loop"
    /\ rankIdx' = 1
    /\ rankChanges' = << >>
    /\ rankSeen' = << >>
    /\ UNCHANGED <<rankFile, notRank>>

\* The end of one loop iteration that left the array as ps and the changes as
\* chs: the next category, or, after the last one,
\* saveTrackedProducts(trackedProducts) and the return of changes.
RankAdvance(ps, chs) ==
    /\ trackedProducts' = ps
    /\ rankChanges' = chs
    /\ rankIdx' = rankIdx + 1
    /\ IF rankIdx = Len(byCategory)
       THEN /\ rankPc' = "returned"
            /\ rankFile' = ps
       ELSE /\ rankPc' = "loop"
            /\ UNCHANGED rankFile

\* `if (!categoryUrl) continue`
RankSkipCategory ==
    /\ rankPc = "loop"
    /\ toLowerCase(byCategory[rankIdx].category) \notin CATEGORIES
    /\ RankAdvance(trackedProducts, rankChanges)
    /\ UNCHANGED <<byCategory, rankRuns, rankSeen, notRank>>

\* newPage, goto, waitForTimeout or extract throws: the try has a finally and
\* no catch, so compareRankings rejects before saveTrackedProducts.
RankCategoryThrows ==
    /\ rankPc = "loop"
    /\ toLowerCase(byCategory[rankIdx].category) \in CATEGORIES
    /\ rankPc' = "threw"
    /\ UNCHANGED <<rankFile, trackedProducts, byCategory, rankIdx, rankChanges,
                   rankRuns, rankSeen, notRank>>

\* One category: the extraction returned rankings; compare its products.
RankCategory(rankings) ==
    /\ rankPc = "loop"
    /\ toLowerCase(byCategory[rankIdx].category) \in CATEGORIES
    /\ LET group == byCategory[rankIdx]
           after == CompareCategory(trackedProducts, rankChanges, group, rankings)
       IN /\ RankAdvance(after.ps, after.chs)
          /\ rankSeen' = Some([category |-> group.category,
                                 rankings |-> rankings])
    /\ UNCHANGED <<byCategory, rankRuns, notRank>>

NextRank ==
    \/ RankNothingTracked
    \/ RankStartCycle
    \/ RankSkipCategory
    \/ RankCategoryThrows
    \/ \E rankings \in RankingLists : RankCategory(rankings)

SpecRank == InitRank /\ [][NextRank]_vars

(***************************************************************************)
(* The monitoring scripts side by side                                     *)
(***************************************************************************)

\* Each script is a program of its own and a process runs one of them: the
\* stock checker, the price tracker or the change detector.  A tracker
\* steps only while the other two are in their idle state.
InitMonitors == InitStock \/ InitPrice \/ InitDetector

NextMonitors ==
    \/ PriceIdle /\ DetectorIdle /\ NextStock
    \/ StockIdle /\ DetectorIdle /\ NextPrice
    \/ StockIdle /\ PriceIdle /\ NextDetector

SpecMonitors == InitMonitors /\ [][NextMonitors]_vars

(***************************************************************************)
(* The two trackers with more than one alert rule, side by side            *)
(***************************************************************************)

\* A process runs the price tracker or the auction tracker; either steps
\* only while the other is in its idle state.
InitAlerting == InitPrice \/ InitAuction

NextAlerting ==
    \/ AuctionIdle /\ NextPrice
    \/ PriceIdle /\ NextAuction

SpecAlerting == InitAlerting /\ [][NextAlerting]_vars

(***************************************************************************)
(* An extractor call that never returns                                    *)
(***************************************************************************)

\* `await page.extract(...)` (or goto) of the item at hand never settles:
\* the await is not raced against a timer, so the loop stays suspended in
\* this iteration ("waiting") and no later statement of the script runs.
StockExtractHangs ==
    /\ stockPc = "loop"
    /\ stockPc' = "waiting"
    /\ UNCHANGED <<previousStockState, stockIdx, stockAlerts, stockStatuses,
                   stockCycles, stockLog, notStock>>

PriceExtractHangs ==
    /\ pricePc = "loop"
    /\ pricePc' = "waiting"
    /\ UNCHANGED <<priceFile, products, priceIdx, priceAlerts, priceRuns,
                   priceChecked, priceObserved, priceCommitted, priceStart, notPrice>>

DetectorExtractHangs ==
    /\ detectorPc = "loop"
    /\ detectorPc' = "waiting"
    /\ UNCHANGED <<monitorFile, monitoredPages, detectorIdx, detectorResults,
                   detectorRuns, detectorBefore, detectorFailed, detectorLog,
                   notDetector>>

\* The scripts side by side, with extractor calls that may never return.
\* Every statement that can run does run in the end (the event loop keeps
\* going), which is the fairness condition.
NextMonitorsLive ==
    \/ NextMonitors
    \/ PriceIdle /\ DetectorIdle /\ StockExtractHangs
    \/ StockIdle /\ DetectorIdle /\ PriceExtractHangs
    \/ StockIdle /\ PriceIdle /\ DetectorExtractHangs

SpecMonitorsLive ==
    InitMonitors /\ [][NextMonitorsLive]_vars /\ WF_vars(NextMonitorsLive)

(***************************************************************************)
(* Properties of the stock availability checker                            *)
(***************************************************************************)

\* C1: a back-in-stock alert is only emitted for an observation of
\* inStock = true that directly follows a successful observation of
\* inStock = false of the same item; so after an alert the next successful
\* observation of true is silent, and a further alert needs false, then true.
C1_TransitionDedup ==
    \A u \in ItemUrls : \A i \in 1..Len(stockLog[u]) :
        /\ stockLog[u][i].alerted =>
              /\ i > 1
              /\ stockLog[u][i].inStock
              /\ ~stockLog[u][i - 1].inStock
        /\ (i > 1 /\ stockLog[u][i - 1].alerted /\ stockLog[u][i].inStock) =>
              ~stockLog[u][i].alerted

\* An alert was emitted and the next successful observation was still true.
C1_Witness ==
    \E u \in ItemUrls : \E i \in 2..Len(stockLog[u]) :
        /\ stockLog[u][i - 1].alerted
        /\ stockLog[u][i].inStock
        /\ ~stockLog[u][i].alerted

\* C3: when a browser step of one item fails in a cycle, the cycle still
\* returns, with a status for every item.
C3_FailureIsolated ==
    stockPc \in {"returned", "threw"} =>
        /\ stockPc = "returned"
        /\ Len(stockStatuses) = Len(TRACKED_ITEMS)

\* C7: an observation of an item whose url has no entry in previousStockState
\* never produces an alert.
C7_FirstObservationSilent ==
    \A u \in ItemUrls : \A i \in 1..Len(stockLog[u]) :
        ~stockLog[u][i].known => ~stockLog[u][i].alerted

\* An item without an entry was observed in stock.
C7_Witness ==
    \E u \in ItemUrls : \E i \in 1..Len(stockLog[u]) :
        ~stockLog[u][i].known /\ stockLog[u][i].inStock

(***************************************************************************)
(* Properties of the price drop tracker                                    *)
(***************************************************************************)

\* The alerts of the running / last run for product i of the given type.
AlertsOf(i, alertType) ==
    SelectSeq(priceAlerts, LAMBDA a : a.idx = i /\ a.alertType = alertType)

\* Product i was checked successfully in the running / last run.
CheckedNow(i) == \E c \in priceChecked : c.idx = i

\* The last n elements of s (all of s when it is shorter).
LastN(s, n) == IF Len(s) > n THEN SubSeq(s, Len(s) - n + 1, Len(s)) ELSE s

\* C2: a run emits target_reached for a product exactly when the price it
\* observed is <= targetPrice and the price recorded before it was >
\* targetPrice (once); while the recorded price is already <= targetPrice no
\* target_reached is emitted.
C2_TargetReachedOnCrossing ==
    pricePc # "idle" =>
        \A i \in 1..Len(products) :
            LET obs == priceObserved[i]
                n == Len(obs)
                crossed == /\ CheckedNow(i)
                           /\ n >= 2
                           /\ obs[n] <= products[i].targetPrice
                           /\ obs[n - 1] > products[i].targetPrice
            IN /\ Len(AlertsOf(i, "target_reached")) = IF crossed THEN 1 ELSE 0
               /\ (CheckedNow(i) /\ n >= 2 /\ obs[n - 1] <= products[i].targetPrice)
                     => AlertsOf(i, "target_reached") = << >>

\* Target 300: 320 was recorded, 299 crossed, and the check of 290 is silent.
C2_Witness ==
    /\ pricePc = "done"
    /\ \E i \in 1..Len(products) :
          LET obs == priceObserved[i]
              n == Len(obs)
          IN /\ CheckedNow(i)
             /\ products[i].targetPrice = 300
             /\ n >= 3
             /\ obs[n - 2] = 320 /\ obs[n - 1] = 299 /\ obs[n] = 290
             /\ AlertsOf(i, "target_reached") = << >>

\* C5: the check of a product whose priceHistory was empty emits no alert for
\* it, neither drop nor target_reached.
C5_FirstPriceSilent ==
    \A c \in priceChecked :
        c.recorded = 0 =>
            /\ AlertsOf(c.idx, "drop") = << >>
            /\ AlertsOf(c.idx, "target_reached") = << >>

\* A first observation at or below the target price.
C5_Witness ==
    \E c \in priceChecked :
        /\ c.recorded = 0
        /\ Last(priceObserved[c.idx]) > 0
        /\ Last(priceObserved[c.idx]) <= products[c.idx].targetPrice

C9_HistoryRetention ==
    /\ pricePc # "idle" =>
          \A i \in 1..Len(products) :
              /\ Len(products[i].priceHistory) <= HISTORY_LIMIT
              /\ HistoryPrices(products[i].priceHistory)
                    = LastN(priceObserved[i], HISTORY_LIMIT)
    /\ \A i \in 1..Len(priceFile) :
          /\ Len(priceFile[i].priceHistory) <= HISTORY_LIMIT
          /\ HistoryPrices(priceFile[i].priceHistory)
                = LastN(priceCommitted[i], HISTORY_LIMIT)

\* A check that pushed the history beyond 100 points.
C9_Witness ==
    \E c \in priceChecked :
        /\ c.recorded = HISTORY_LIMIT
        /\ Len(priceObserved[c.idx]) > HISTORY_LIMIT

(***************************************************************************)
(* Properties of the auction tracker                                       *)
(***************************************************************************)

\* The alerts of the running / last cycle for auction i of the given type.
AuctionAlertsOf(i, type) ==
    SelectSeq(auctionAlerts, LAMBDA a : a.idx = i /\ a.type = type)

\* C4: a cycle over tracked auctions always ends with every auction checked
\* and the points recorded in the cycle saved, also when a check failed.
C4_AuctionFailureIsolated ==
    auctionPc \in {"done", "threw"} =>
        /\ auctionIdx > Len(auctions)
        /\ auctionFile = auctions

\* C6: the check of an auction whose history was empty emits neither outbid
\* nor new_bid for it.
C6_FirstBidSilent ==
    \A c \in auctionChecked :
        c.recorded = 0 =>
            /\ AuctionAlertsOf(c.idx, "outbid") = << >>
            /\ AuctionAlertsOf(c.idx, "new_bid") = << >>

\* C10: an auction's history never holds more than 100 points, in memory or
\* in the saved file.
C10_SeriesBounded ==
    /\ \A i \in 1..Len(auctions) : Len(auctions[i].history) <= HISTORY_LIMIT
    /\ \A i \in 1..Len(auctionFile) : Len(auctionFile[i].history) <= HISTORY_LIMIT

(***************************************************************************)
(* Properties of the change detector, and of the trackers side by side     *)
(***************************************************************************)

\* The indices of the products checked successfully in this run.
CheckedIdx(checked) == {c.idx : c \in checked}

\* A step in which the check of the entity at hand failed: the stock
\* checker pushed a null status or rejected, the price tracker got no
\* priceData, the change detector caught the error of checkPage.
StockCheckFailed ==
    /\ stockPc = "loop"
    /\ \/ stockPc' = "threw"
       \/ Len(stockStatuses') > Len(stockStatuses) /\ ~Last(stockStatuses').ok

PriceCheckFailed == pricePc = "loop" /\ priceChecked' = priceChecked

DetectorCheckFailed ==
    detectorPc = "loop" /\ Len(detectorResults') = Len(detectorResults)

\* What DATA_FILE of the price tracker held for product j before the run
\* (the sample product, as JSON writes it, when there was no file).
PriceStoredBefore(j) ==
    IF Len(priceFile) = 0 THEN JsonRoundTrip(SampleProducts)[j] ELSE priceFile[j]

\* C11: a failed check leaves the stored state of its entity as it was:
\* the Map entry of the stock item; the product object of the price tracker,
\* and what a later save writes for every product not checked in the run;
\* lastChecked, lastHash and lastContent of the page, in memory and in what
\* the run saves.
C11_FailedCheckKeepsState ==
    [][/\ StockCheckFailed => previousStockState' = previousStockState
       /\ PriceCheckFailed => products'[priceIdx] = products[priceIdx]
       /\ (pricePc = "loop" /\ pricePc' = "done") =>
              \A j \in (1..Len(products)) \ CheckedIdx(priceChecked') :
                  priceFile'[j] = PriceStoredBefore(j)
       /\ DetectorCheckFailed =>
              monitoredPages'[detectorIdx] = monitoredPages[detectorIdx]
       /\ \A i \in detectorFailed' :
              /\ monitoredPages'[i] = detectorBefore'[i]
              /\ detectorPc' = "done" => monitorFile'[i] = detectorBefore'[i]
      ]_vars

\* A run of the detector saved after the check of a page with a recorded
\* hash failed.
C11_Witness ==
    /\ detectorPc = "done"
    /\ \E i \in detectorFailed : monitorFile[i].lastHash # Missing

(***************************************************************************)
(* The price tracker and an unparseable price                              *)
(***************************************************************************)

\* The products as runPriceTracker loaded them, while the loop runs (the
\* file is written only after the loop).
PriceLoaded == IF Len(priceFile) = 0 THEN SampleProducts ELSE priceFile

\* No number can be read from the string: /[\d,]+\.?\d*/ has no match.
Unparseable(priceStr) ==
    \A k \in 1..Len(priceStr) : priceStr[k] \notin Digits \cup {","}

\* C12: a check whose currentPrice string holds no number is treated like a
\* failed extraction: the product is as loaded (no point appended,
\* lowestPrice and highestPrice as before) and the run has no alert for it.
C12_UnparseableIsFailure ==
    pricePc = "loop" =>
        \A c \in priceChecked :
            Unparseable(c.priceStr) =>
                /\ products[c.idx] = PriceLoaded[c.idx]
                /\ AlertsOf(c.idx, "drop") = << >>
                /\ AlertsOf(c.idx, "target_reached") = << >>

(***************************************************************************)
(* Hashing and the three returns of checkPage                              *)
(***************************************************************************)

\* The page of a result as the run loaded it, which is how checkPage got it
\* (a run checks a page once).
PageBefore(r) == detectorBefore[r.page]

\* The results of the run whose page had content recorded before.
Rechecks == {k \in 1..Len(detectorResults) :
                PageBefore(detectorResults[k]).lastContent # Missing}

SectionSet(content) ==
    {content.importantSections[i] : i \in 1..Len(content.importantSections)}

\* Two contents that differ at most in the order of their sections.
SameUpToSectionOrder(a, b) ==
    /\ a.title = b.title
    /\ a.mainContent = b.mainContent
    /\ a.lastUpdated = b.lastUpdated
    /\ a.links = b.links
    /\ Len(a.importantSections) = Len(b.importantSections)
    /\ SectionSet(a) = SectionSet(b)

\* C13: two contents with the same title, mainContent, lastUpdated and links
\* and the same sections in a different order have the same hashContent, so
\* checkPage reports no_change when one follows the other.
C13_HashIgnoresSectionOrder ==
    \A k \in Rechecks :
        LET r == detectorResults[k]
            previous == PageBefore(r).lastContent[1]
        IN SameUpToSectionOrder(previous, r.currentContent) =>
               /\ hashContent(previous) = hashContent(r.currentContent)
               /\ r.changeType = "no_change"

\* lastUpdated read as the spec normalises it: a missing value counts as
\* present and empty.
NormalisedLastUpdated(content) ==
    IF content.lastUpdated = Missing THEN "" ELSE content.lastUpdated[1]

\* Two contents that differ at most in lastUpdated being null or "".
SameUpToMissingLastUpdated(a, b) ==
    /\ a.title = b.title
    /\ a.mainContent = b.mainContent
    /\ NormalisedLastUpdated(a) = NormalisedLastUpdated(b)
    /\ a.links = b.links
    /\ a.importantSections = b.importantSections

\* C14: a content whose lastUpdated is null hashes like the same content
\* with lastUpdated "", so a page going from one to the other is no_change.
C14_MissingLastUpdatedIsEmpty ==
    \A k \in Rechecks :
        LET r == detectorResults[k]
            previous == PageBefore(r).lastContent[1]
        IN SameUpToMissingLastUpdated(previous, r.currentContent) =>
               /\ hashContent(previous) = hashContent(r.currentContent)
               /\ r.changeType = "no_change"

\* C15: when the hash of the extracted content equals the stored lastHash,
\* checkPage returns no_change without a changes record and without a
\* previousContent: detectChanges was not run.
C15_EqualHashIsNoChange ==
    \A k \in 1..Len(detectorResults) :
        LET r == detectorResults[k]
        IN PageBefore(r).lastHash = Some(hashContent(r.currentContent)) =>
               /\ r.changeType = "no_change"
               /\ r.changes = Missing
               /\ r.previousContent = Missing

\* A page was checked again with the content it had: the hashes are equal.
C15_Witness ==
    \E k \in Rechecks :
        detectorResults[k].currentContent = PageBefore(detectorResults[k]).lastContent[1]

(***************************************************************************)
(* Properties of detectChanges                                             *)
(***************************************************************************)

Range(s) == {s[i] : i \in 1..Len(s)}

HeadingSet(content) == Range(Headings(content.importantSections))

\* What a content lists under a heading.
ContentsUnder(content, h) ==
    {x.content : x \in {y \in SectionSet(content) : y.heading = h}}

\* C16: newSections is exactly the headings in current but not in previous,
\* removedSections exactly those in previous but not in current, and
\* modifiedSections exactly the headings in both under which the content
\* differs; from {Specs: A, Reviews: B} to {Specs: A2, Shipping: C} that is
\* [Shipping], [Reviews] and [Specs].
C16_DiffIsSetDifference ==
    diffResult # Missing =>
        LET changes == diffResult[1]
            prev == HeadingSet(diffPrevious)
            cur == HeadingSet(diffCurrent)
        IN /\ Range(changes.newSections) = cur \ prev
           /\ Range(changes.removedSections) = prev \ cur
           /\ Range(changes.modifiedSections) =
                  {h \in prev \cap cur :
                      ContentsUnder(diffPrevious, h) # ContentsUnder(diffCurrent, h)}

(***************************************************************************)
(* Properties of the change detector over its runs                         *)
(***************************************************************************)

\* A change record that names something: a flag is set or a list has an entry.
NonEmptyChanges(changes) ==
    \/ changes.titleChanged
    \/ changes.contentChanged
    \/ changes.newSections # << >>
    \/ changes.removedSections # << >>
    \/ changes.modifiedSections # << >>

\* C17: a result with changeType modified carries a change record, and the
\* record is non-empty: titleChanged or contentChanged is true, or one of
\* newSections, removedSections, modifiedSections has an entry.
C17_ModifiedHasChanges ==
    \A k \in 1..Len(detectorResults) :
        LET r == detectorResults[k]
        IN r.changeType = "modified" =>
               r.changes # Missing /\ NonEmptyChanges(r.changes[1])

\* The successful checks of page i so far, oldest first.
ChecksOf(i) == detectorLog[i].checks

\* C18: a successful check of a page directly after a successful check that
\* extracted the same content reports no_change, whatever the earlier check
\* reported (new, modified or no_change) and however many failed checks or
\* runs lie between the two.
C18_SameContentIsNoChange ==
    \A i \in 1..Len(detectorLog) :
        \A n \in 2..Len(ChecksOf(i)) :
            ChecksOf(i)[n].content = ChecksOf(i)[n - 1].content =>
                ChecksOf(i)[n].changeType = "no_change"

\* A page reported as modified, and its next check extracted the same content.
C18_Witness ==
    \E i \in 1..Len(detectorLog) :
        \E n \in 2..Len(ChecksOf(i)) :
            /\ ChecksOf(i)[n - 1].changeType = "modified"
            /\ ChecksOf(i)[n].content = ChecksOf(i)[n - 1].content

\* C19: of the successful checks of a page exactly the first one reports
\* new, also when failed checks came before it.
C19_NewOnlyOnFirstCheck ==
    \A i \in 1..Len(detectorLog) :
        \A n \in 1..Len(ChecksOf(i)) :
            ChecksOf(i)[n].changeType = "new" <=> n = 1

\* A page whose first check failed, then reported new, then was checked again.
C19_Witness ==
    \E i \in 1..Len(detectorLog) :
        /\ Len(ChecksOf(i)) >= 2
        /\ ChecksOf(i)[1].errorsBefore > 0
        /\ ChecksOf(i)[1].changeType = "new"

(***************************************************************************)
(* The stock checker across a restart of its process                       *)
(***************************************************************************)

\* C20: the last observed inStock value of every item is available whenever
\* a cycle runs, a restart of the process in between or not, so that an
\* observation of in stock directly after one of out of stock alerts.
C20_StockStateSurvivesRestart ==
    \A url \in ItemUrls :
        /\ stockLog[url] # << >> =>
              /\ url \in DOMAIN previousStockState
              /\ previousStockState[url] = Last(stockLog[url]).inStock
        /\ \A n \in 2..Len(stockLog[url]) :
              (stockLog[url][n].inStock /\ ~stockLog[url][n - 1].inStock) =>
                  stockLog[url][n].alerted

(***************************************************************************)
(* Properties of the auction tracker over its cycles                       *)
(***************************************************************************)

\* C21: ending_soon is pushed for an auction at most once for the passage
\* of its remaining time to below 60 minutes: a check that finds the time
\* between 0 and 60 minutes directly after a check that found it there too
\* pushes no ending_soon.
C21_EndingSoonOnce ==
    \A i \in DOMAIN auctionLog :
        (/\ auctionLog[i] # << >>
         /\ auctionLog[i][1].wasEndingSoon
         /\ EndingSoon(auctionLog[i][1].timeLeft)) =>
            ~auctionLog[i][1].endingSoon

(***************************************************************************)
(* Termination of a cycle                                                  *)
(***************************************************************************)

\* C22: a cycle is never blocked forever by one entity: once its loop runs,
\* also when an extractor call does not return, the stock checker gets to
\* its return (or rejects), the price tracker to its save (or rejects) and
\* the change detector to its save.
C22_CycleNeverBlocked ==
    /\ (stockPc \in {"loop", "waiting"}) ~> (stockPc \in {"returned", "threw"})
    /\ (pricePc \in {"loop", "waiting"}) ~> (pricePc \in {"done", "threw"})
    /\ (detectorPc \in {"loop", "waiting"}) ~> (detectorPc = "done")

(***************************************************************************)
(* Further properties of the price tracker                                 *)
(***************************************************************************)

\* C23: no alert of a run carries a changePercent that is not finite (a
\* division by a previous price of 0): a check whose last recorded price is
\* 0 emits no alert at all.
C23_AlertPercentFinite ==
    \A k \in 1..Len(priceAlerts) :
        /\ priceAlerts[k].changePercent.den # 0
        /\ priceAlerts[k].previousPrice # 0

\* A product was checked at a price above 0 when its last recorded price
\* was 0.
C23_Witness ==
    \E c \in priceChecked :
        LET h == products[c.idx].priceHistory
        IN /\ c.recorded > 0
           /\ Len(h) >= 2
           /\ h[Len(h) - 1].price = 0
           /\ h[Len(h)].price > 0

(***************************************************************************)
(* Order of the alerts of a cycle                                          *)
(***************************************************************************)

\* The place of a rule in the loop body of its tracker.
PriceRuleRank(alertType) == IF alertType = "drop" THEN 1 ELSE 2

AuctionRuleRank(type) ==
    CASE type = "ending_soon" -> 1 [] type = "outbid" -> 2 [] type = "new_bid" -> 3

\* keys[k] = << entity index, rule rank >> of the k-th alert: an earlier
\* alert is of an earlier entity, or of the same entity and an earlier rule.
StrictlyOrdered(keys) ==
    \A k, l \in 1..Len(keys) :
        k < l => \/ keys[k][1] < keys[l][1]
                 \/ keys[k][1] = keys[l][1] /\ keys[k][2] < keys[l][2]

\* C24: the alerts of a cycle are ordered by entity in the order of the
\* checks and, for one entity, by rule in the order of declaration (drop,
\* target_reached; ending_soon, outbid, new_bid); no rule has two alerts for
\* one entity in a cycle.
C24_AlertsInRuleOrder ==
    /\ StrictlyOrdered([k \in 1..Len(priceAlerts) |->
           << priceAlerts[k].idx, PriceRuleRank(priceAlerts[k].alertType) >>])
    /\ StrictlyOrdered([k \in 1..Len(auctionAlerts) |->
           << auctionAlerts[k].idx, AuctionRuleRank(auctionAlerts[k].type) >>])

\* A run of the price tracker with both alerts for the first product and an
\* alert for the second.
C24_Witness ==
    /\ AlertsOf(1, "drop") # << >>
    /\ AlertsOf(1, "target_reached") # << >>
    /\ \E k \in 1..Len(priceAlerts) : priceAlerts[k].idx = 2

(***************************************************************************)
(* Independence of the entities of a cycle                                 *)
(***************************************************************************)

\* The Map entry of url: << >> without one, << v >> with value v.
StockEntry(m, url) == IF url \in DOMAIN m THEN << m[url] >> ELSE << >>

\* An iteration of the stock checker's loop leaves the entries of the other
\* urls alone and pushes an alert exactly when the item at hand was
\* observed in stock and its own entry was false.
StockIndependent ==
    stockPc = "loop" =>
        LET url == TRACKED_ITEMS[stockIdx]
            observed == Len(stockStatuses') > Len(stockStatuses)
                            /\ Last(stockStatuses').ok
        IN /\ \A other \in ItemUrls \ {url} :
                  StockEntry(previousStockState', other) =
                      StockEntry(previousStockState, other)
           /\ Len(stockAlerts') > Len(stockAlerts) <=>
                  /\ observed
                  /\ Last(stockStatuses').inStock
                  /\ StockEntry(previousStockState, url) = << FALSE >>
           /\ Len(stockAlerts') > Len(stockAlerts) => Last(stockAlerts').item = url

\* An iteration of the price tracker's loop leaves the other product objects
\* alone, and every alert it pushes is of the product at hand, from its own
\* last recorded price to the price now recorded for it.
PriceIndependent ==
    pricePc = "loop" =>
        /\ \A j \in (1..Len(products)) \ {priceIdx} : products'[j] = products[j]
        /\ \A k \in (Len(priceAlerts) + 1)..Len(priceAlerts') :
              /\ priceAlerts'[k].idx = priceIdx
              /\ products[priceIdx].priceHistory # << >>
              /\ priceAlerts'[k].previousPrice =
                     Last(products[priceIdx].priceHistory).price
              /\ priceAlerts'[k].currentPrice =
                     Last(products'[priceIdx].priceHistory).price

\* An iteration of the change detector's loop leaves the other pages alone,
\* and the result it pushes is of the page at hand, its changeType decided
\* by that page's lastHash and the extracted content.
DetectorIndependent ==
    detectorPc = "loop" =>
        /\ \A j \in (1..Len(monitoredPages)) \ {detectorIdx} :
              monitoredPages'[j] = monitoredPages[j]
        /\ Len(detectorResults') > Len(detectorResults) =>
              LET r == Last(detectorResults')
              IN /\ r.page = detectorIdx
                 /\ r.changeType = ChangeType(monitoredPages[detectorIdx].lastHash,
                                              hashContent(r.currentContent))

\* C25: the check of one entity changes the stored state of that entity
\* only, and what it reports is decided by that entity's own stored state
\* and the observation, in the stock checker, the price tracker and the
\* change detector.
C25_EntitiesIndependent ==
    [][StockIndependent /\ PriceIndependent /\ DetectorIndependent]_vars

\* The two items of the stock checker with different recorded values.
C25_Witness ==
    /\ DOMAIN previousStockState = ItemUrls
    /\ previousStockState[TRACKED_ITEMS[1]] # previousStockState[TRACKED_ITEMS[2]]
    /\ stockAlerts # << >>

(***************************************************************************)
(* Properties of waitForVideoAndDownload                                   *)
(***************************************************************************)

VideoErrors == {"status error", "download error"}

\* The event after the k-th one, "" when it is the last so far.
VideoNext(k) == IF k < Len(videoTrace) THEN videoTrace[k + 1].what ELSE ""

\* C26: once polling has begun the call never rejects.  It returns the
\* destination path only directly after a download that followed a status
\* of completed with a recording url; it returns null directly on a status
\* of failed, and when the loop test finds maxWaitMs elapsed; an error of a
\* status check or of the download returns nothing and is followed by the
\* sleep of pollIntervalMs and the next loop test, which polls again unless
\* maxWaitMs has elapsed by then.
C26_PollingContract ==
    /\ videoPc # "rejected"
    /\ videoPc = "returned" <=> videoResult # Missing
    /\ videoResult = Some("destPath") =>
           /\ Len(videoTrace) >= 2
           /\ videoTrace[Len(videoTrace)].what = "downloaded"
           /\ videoTrace[Len(videoTrace) - 1].what = "ready"
    /\ videoResult = Some("null") =>
           \/ Last(videoTrace).what = "failed"
           \/ Last(videoTrace).what = "timeout" /\ Last(videoTrace).at >= videoMaxWait
    /\ \A k \in 1..Len(videoTrace) :
           LET e == videoTrace[k]
           IN /\ e.what = "failed" => k = Len(videoTrace) /\ videoResult = Some("null")
              /\ e.what = "poll" => e.at < videoMaxWait
              /\ e.what \in VideoErrors =>
                     /\ VideoNext(k) \in {"", "slept"}
                     /\ VideoNext(k) = "" => videoPc = "sleep" /\ videoResult = Missing
              /\ e.what = "slept" =>
                     /\ VideoNext(k) \in {"", "poll", "timeout"}
                     /\ VideoNext(k) = "" => videoPc = "test"
                     /\ VideoNext(k) = "poll" <=>
                            (k < Len(videoTrace) /\ e.at + 1 < videoMaxWait)

\* The call returned the path after an error of the download and an error
\* of a status check.
C26_Witness ==
    /\ videoResult = Some("destPath")
    /\ \E k \in 1..Len(videoTrace) : videoTrace[k].what = "status error"
    /\ \E k \in 1..Len(videoTrace) : videoTrace[k].what = "download error"

(***************************************************************************)
(* Invariants of the stored state                                          *)
(***************************************************************************)

\* lastHash and lastContent of a page are both missing or both there, and
\* then lastHash is the hash of lastContent.
HashMatchesContent(page) ==
    /\ page.lastHash = Missing <=> page.lastContent = Missing
    /\ page.lastHash # Missing =>
           page.lastHash = Some(hashContent(page.lastContent[1]))

\* C27: from pages with neither lastHash nor lastContent, after any runs
\* with any mix of successful and failed checks, every page, in memory and
\* in DATA_FILE, has lastHash exactly when it has lastContent, and then
\* lastHash = hashContent(lastContent); lastContent is the content of the
\* page's most recent successful check (in the file: once the run saved).
C27_StoredStateConsistent ==
    /\ \A i \in 1..Len(monitorFile) : HashMatchesContent(monitorFile[i])
    /\ \A i \in 1..Len(monitoredPages) :
           /\ HashMatchesContent(monitoredPages[i])
           /\ monitoredPages[i].lastContent = Missing <=> ChecksOf(i) = << >>
           /\ ChecksOf(i) # << >> =>
                  monitoredPages[i].lastContent = Some(Last(ChecksOf(i)).content)
    /\ detectorPc = "done" => monitorFile = monitoredPages

\* A run saved a page that was checked twice and whose check failed once.
C27_Witness ==
    /\ detectorPc = "done"
    /\ \E i \in 1..Len(monitorFile) :
           /\ Len(ChecksOf(i)) >= 2
           /\ detectorLog[i].errors > 0
           /\ Last(ChecksOf(i)).changeType = "modified"

\* C28: for products that start with an empty history (no DATA_FILE, the
\* sample products), after any successful checks lowestPrice is at most, and
\* highestPrice at least, every price recorded for the product; a check
\* never raises lowestPrice and never lowers highestPrice.
C28_ExtremesBoundHistory ==
    [][ priceStart = << >> /\ pricePc = "loop" /\ products' # products =>
          LET i == priceIdx
              before == products[i]
              after == products'[i] IN
          /\ after.lowestPrice.t = "number"
          /\ after.highestPrice.t = "number"
          /\ \A p \in {priceObserved'[i][k] : k \in 1..Len(priceObserved'[i])} :
                 after.lowestPrice.n <= p /\ after.highestPrice.n >= p
          /\ before.lowestPrice.t = "number" =>
                 after.lowestPrice.n <= before.lowestPrice.n
          /\ before.highestPrice.t = "number" =>
                 after.highestPrice.n >= before.highestPrice.n ]_vars

(***************************************************************************)
(* Well-formedness of the result of detectChanges                          *)
(***************************************************************************)

NoRepeats(s) == \A i, j \in 1..Len(s) : s[i] = s[j] => i = j

\* C29: for every pair of contents, repeated headings included, the three
\* lists of detectChanges are pairwise disjoint and none of them holds a
\* heading twice.
C29_DiffWellFormed ==
    diffResult # Missing =>
        LET changes == diffResult[1] IN
        /\ Range(changes.newSections) \cap Range(changes.removedSections) = {}
        /\ Range(changes.newSections) \cap Range(changes.modifiedSections) = {}
        /\ Range(changes.removedSections) \cap Range(changes.modifiedSections) = {}
        /\ NoRepeats(changes.newSections)
        /\ NoRepeats(changes.removedSections)
        /\ NoRepeats(changes.modifiedSections)

(***************************************************************************)
(* Properties of the bestseller tracker                                    *)
(***************************************************************************)

\* The rankings list a product that matches the tracked one.
FoundIn(rankings, tracked) ==
    \E k \in 1..Len(rankings) : Matches(rankings[k], tracked)

\* The changes a step pushed.
NewChanges == SubSeq(rankChanges', Len(rankChanges) + 1, Len(rankChanges'))

\* A step of the category loop pushed a RankingChange for `tracked`.
Reported(tracked) ==
    /\ rankPc = "loop"
    /\ \E k \in 1..Len(NewChanges) :
           /\ NewChanges[k].product = tracked.name
           /\ NewChanges[k].category = tracked.category

\* C30: a rank point is appended to a tracked product's rankHistory, and a
\* RankingChange is reported for it, only in a step whose extraction is for
\* the product's category, lists the product, and finds its rankHistory
\* non-empty; a product whose rankHistory is empty keeps it empty, in memory
\* and in DATA_FILE, and is not reported, cycle after cycle.
C30_RankRecordedOnlyWithHistory ==
    [][ /\ \A i \in 1..Len(trackedProducts) :
               LET tracked == trackedProducts[i]
                   appended == /\ rankPc = "loop"
                               /\ trackedProducts'[i].rankHistory # tracked.rankHistory
               IN /\ appended \/ Reported(tracked) =>
                         /\ rankSeen' # rankSeen
                         /\ rankSeen'[1].category = tracked.category
                         /\ FoundIn(rankSeen'[1].rankings, tracked)
                         /\ Len(tracked.rankHistory) > 0
                  /\ rankPc = "loop" /\ tracked.rankHistory = << >> =>
                         trackedProducts'[i].rankHistory = << >>
        /\ \A i \in 1..Len(rankFile) :
               rankFile[i].rankHistory = << >> => rankFile'[i].rankHistory = << >>
      ]_vars

\* In the second cycle, an extraction lists two products of its category: a
\* change was reported for one, and the other, never ranked, still has no
\* rank point.
C30_Witness ==
    /\ rankRuns = MaxRankRuns
    /\ rankSeen # Missing
    /\ \E i, j \in 1..Len(trackedProducts) :
           /\ trackedProducts[i].rankHistory = << >>
           /\ trackedProducts[i].category = rankSeen[1].category
           /\ FoundIn(rankSeen[1].rankings, trackedProducts[i])
           /\ trackedProducts[j].category = rankSeen[1].category
           /\ Len(trackedProducts[j].rankHistory) > Len(rankFile[j].rankHistory)
           /\ \E k \in 1..Len(rankChanges) :
                  rankChanges[k].product = trackedProducts[j].name

====
